---- MODULE Spec2Model ----
(***************************************************************************)
(* lengine: an append-only log store.  The engine binds a log file (LOG0), *)
(* an index file (IDX0), an advisory lock file (LOCK) and an in-memory     *)
(* info map.  Files are sequences of bytes; each file has a durable length *)
(* (the prefix that fdatasync has made crash-proof).                       *)
(***************************************************************************)
EXTENDS Integers, Sequences, FiniteSets, TLC

(***************************************************************************)
(* Bounds of the model.                                                    *)
(***************************************************************************)
MaxRows == 3
MaxLogLen == 7
NumOpeners == 2
TornBytes == 1
MaxFaults == 2
MaxPuts == 2
MaxNodes == 6
MaxKey == 6
MaxTurns == 8
MaxInsert == 3
MaxBig == 1

(***************************************************************************)
(* Program constants.                                                      *)
(***************************************************************************)
DEFAULT_WRITE_BUF_SIZE == 64 * 1024 * 1024
OffsetSize == 8
EntrySizeBytes == 2
EntrySizeMax == 65535

\* Payloads handed to Transaction::append, keys and values of put_info.
Payloads == { <<>>, <<7>> }
InfoKeys == { "j", "k" }
InfoVals == { "u", "v" }
Openers == 1..NumOpeners

VARIABLES
    path,          \* what the repository path is: "absent", "file" or "dir"
    LOCK,          \* TRUE iff the file DB/LOCK exists
    IDX0,          \* bytes of DB/IDX0 as the file system shows them
    idx_durable,   \* length of the prefix of IDX0 that survives a crash
    LOG0,          \* bytes of DB/LOG0 as the file system shows them
    log_durable,   \* length of the prefix of LOG0 that survives a crash
    engine,        \* "closed", "open" when an Engine value exists, "index"
                   \* when an Index value exists on its own
    map,           \* Index.map
    next_row,      \* Index.next_row
    info,          \* Engine.info
    tx,            \* position of the engine transaction
    writer,        \* bytes buffered in log Transaction.writer
    tail,          \* log Transaction.tail
    old_len,       \* index Transaction.old_len
    info_updates,  \* engine Transaction.info_updates
    event,         \* the operation that completed last and its outcome
    count0,        \* count() when the current or last transaction began
    appended,      \* <<row, payload>> of each append of that transaction
    staged,        \* <<key, value>> of each put_info of that transaction
    acked,         \* row -> payload of this session's successful commits
    acked_closed,  \* row -> payload of successful commits of past sessions
    n_committed,   \* entries appended by transactions that committed
    rets,          \* row ids returned by the appends of this session
    count_open,    \* count() right after this session's open
    was_reset,     \* TRUE iff Engine::reset ran in this session
    faults,        \* failed I/O calls and crashes so far
    opener,        \* position of each concurrent Engine::open call
    root,          \* IntervalTree.root
    tree,          \* IntervalTree.tree: the slab, key -> Node
    vacant,        \* the slab's vacant keys, the next one to use first
    tstate,        \* "ok" until a call on the tree panics or hangs
    op             \* the last call on the tree

disk == <<path, LOCK, IDX0, idx_durable, LOG0, log_durable>>
mem == <<engine, map, next_row, info>>
txn == <<tx, writer, tail, old_len, info_updates>>
ghost == <<event, count0, appended, staged, acked, acked_closed, n_committed,
           rets, count_open, was_reset, faults>>
flex == <<root, tree, vacant, tstate, op>>
vars == <<disk, mem, txn, ghost, opener, flex>>

(***************************************************************************)
(* Byte-level helpers.                                                     *)
(***************************************************************************)
Prefix(s, k) == SubSeq(s, 1, k)
Suffix(s, k) == SubSeq(s, k + 1, Len(s))

RECURSIVE Shr8(_, _)
Shr8(n, k) == IF k = 0 THEN n ELSE Shr8(n \div 256, k - 1)

\* byteorder: write_u16::<LittleEndian>
write_u16(n) == << n % 256, (n \div 256) % 256 >>
\* write_u64 with the bytes in big-endian order
write_u64_be(n) == [i \in 1..OffsetSize |-> Shr8(n, OffsetSize - i) % 256]

\* byteorder: LittleEndian::write_u64_into for one value
write_u64(n) == [i \in 1..OffsetSize |-> Shr8(n, i - 1) % 256]

RECURSIVE write_u64_into(_)
write_u64_into(offsets) ==
    IF offsets = <<>> THEN <<>>
    ELSE write_u64(Head(offsets)) \o write_u64_into(Tail(offsets))

\* A value of 2^24 or more stands for itself up to 2^24 only: every file
\* of the model is shorter, and a loaded offset is only ever used as a
\* read position.
OffsetCap == 256 * 65536
read_u64(b) ==
    IF \E i \in 4..OffsetSize : b[i] # 0 THEN OffsetCap
    ELSE b[1] + 256 * b[2] + 65536 * b[3]

\* byteorder: read_u64_into::<LittleEndian>(&mut map[0..n_rows])
read_u64_into(bytes, n_rows) ==
    [i \in 1..n_rows |->
        read_u64(SubSeq(bytes, OffsetSize * (i - 1) + 1, OffsetSize * i))]

\* positioned_io: read_u16_at::<LE>: <<value>>, or <<>> for the error of a
\* read that runs past the end of the file
read_u16_at(file, offset) ==
    IF offset + EntrySizeBytes > Len(file) THEN <<>>
    ELSE << file[offset + 1] + 256 * file[offset + 2] >>

\* positioned_io: read_at into a zeroed buffer of len bytes; a short read
\* leaves the rest of the buffer zero and the count is ignored by the caller
read_at(file, pos, len) ==
    [i \in 1..len |-> IF pos + i <= Len(file) THEN file[pos + i] ELSE 0]

(***************************************************************************)
(* Index                                                                   *)
(***************************************************************************)
\* Index::open: n_rows and the loaded vector
IndexOpenRows(file) == Len(file) \div OffsetSize
IndexOpenMap(file) == read_u64_into(file, IndexOpenRows(file))

\* Index::get: <<offset>> for Some(offset), <<>> for None
IndexGet(row) == IF row < Len(map) THEN <<map[row + 1]>> ELSE <<>>

\* Index::sync_data with old_len forgotten: the whole vector is written
IndexSyncBuf_all(m, from) == write_u64_into(m)

\* Index::sync_data: the bytes handed to write_all
IndexSyncBuf(m, from) == write_u64_into(Suffix(m, from))

(***************************************************************************)
(* Log                                                                     *)
(***************************************************************************)
\* log Transaction::append: the bytes of one entry
LogEntryBytes(entry) == write_u16(Len(entry) % 65536) \o entry

\* BufWriter::write_all: [buf, file] after writing data through the buffer
BufWrite(buf, file, data) ==
    IF Len(buf) + Len(data) > DEFAULT_WRITE_BUF_SIZE
    THEN IF Len(data) >= DEFAULT_WRITE_BUF_SIZE
         THEN [buf |-> <<>>, file |-> file \o buf \o data]
         ELSE [buf |-> data, file |-> file \o buf]
    ELSE [buf |-> buf \o data, file |-> file]

(***************************************************************************)
(* Engine                                                                  *)
(***************************************************************************)
\* Engine::count
Count == next_row

\* Engine::get
EngineGet(row) ==
    IF IndexGet(row) = <<>> THEN <<"None">>
    ELSE LET offset == IndexGet(row)[1]
             len == read_u16_at(LOG0, offset) IN
         IF len = <<>> THEN <<"Err">>
         ELSE <<"Some", read_at(LOG0, offset + EntrySizeBytes, len[1])>>

Override(f, g) ==
    [r \in (DOMAIN f) \cup (DOMAIN g) |-> IF r \in DOMAIN g THEN g[r] ELSE f[r]]

Rows(apps) == { apps[i][1] : i \in DOMAIN apps }
\* row -> payload of a transaction's appends (a later append of a row wins)
RowMap(apps) ==
    [r \in Rows(apps) |->
        apps[CHOOSE i \in DOMAIN apps :
                /\ apps[i][1] = r
                /\ \A j \in DOMAIN apps : apps[j][1] = r => j <= i][2]]

\* How many bytes of an n-byte write reach the file when the write fails or
\* the machine stops in the middle of it.
TornLog(n) == { k \in 0..(n - 1) : k <= TornBytes }
TornIndex(n) == { k \in 0..(n - 1) : k % OffsetSize \in {0, TornBytes} }

Fault == /\ faults < MaxFaults
         /\ faults' = faults + 1

NoTx == /\ tx' = "none"
        /\ writer' = <<>>
        /\ tail' = 0
        /\ old_len' = 0
        /\ info_updates' = <<>>

NoEngine == /\ engine' = "closed"
            /\ map' = <<>>
            /\ next_row' = 0
            /\ info' = <<>>

\* What the observer forgets and keeps when a session ends.
EndSession == /\ acked' = <<>>
              /\ acked_closed' = Override(acked_closed, acked)
              /\ rets' = <<>>
              /\ count_open' = 0
              /\ count0' = 0
              /\ appended' = <<>>
              /\ staged' = <<>>
              /\ was_reset' = FALSE

\* Engine::open without the test of metadata.is_dir()
EngineOpen_unchecked ==
    /\ engine = "closed"
    /\ ~LOCK
    /\ path' = "dir"
    /\ LOCK' = TRUE
    /\ engine' = "open"
    /\ map' = IndexOpenMap(IDX0)
    /\ next_row' = IndexOpenRows(IDX0)
    /\ info' = <<>>
    /\ event' = "open"
    /\ count_open' = IndexOpenRows(IDX0)
    /\ UNCHANGED <<IDX0, idx_durable, LOG0, log_durable, txn, count0,
                   appended, staged, acked, acked_closed, n_committed, rets,
                   was_reset, faults, opener, flex>>

\* Engine::open by a single opener, start to end
EngineOpen ==
    /\ engine = "closed"
    /\ path # "file"
    /\ ~LOCK
    /\ path' = "dir"
    /\ LOCK' = TRUE
    /\ engine' = "open"
    /\ map' = IndexOpenMap(IDX0)
    /\ next_row' = IndexOpenRows(IDX0)
    /\ info' = <<>>
    /\ event' = "open"
    /\ count_open' = IndexOpenRows(IDX0)
    /\ UNCHANGED <<IDX0, idx_durable, LOG0, log_durable, txn, count0,
                   appended, staged, acked, acked_closed, n_committed, rets,
                   was_reset, faults, opener, flex>>

\* Engine::open while DB/LOCK exists: Err(EBUSY), nothing is touched
EngineOpenBusy ==
    /\ path = "dir"
    /\ LOCK
    /\ event' = "busy"
    /\ UNCHANGED <<disk, mem, txn, count0, appended, staged, acked, acked_closed,
                   n_committed, rets, count_open, was_reset, faults, opener, flex>>
\* Engine::open on a path that exists and is not a directory:
\* Err(ENOTDIR), nothing is touched
EngineOpenNotDir ==
    /\ engine = "closed"
    /\ path = "file"
    /\ event' = "enotdir"
    /\ UNCHANGED <<disk, mem, txn, count0, appended, staged, acked, acked_closed,
                   n_committed, rets, count_open, was_reset, faults, opener, flex>>

\* Engine::open creates the lock file, then Index::open or Log::open fails
\* and `?` returns the error: no Engine value exists, so no drop runs.
EngineOpenErr ==
    /\ engine = "closed"
    /\ path # "file"
    /\ ~LOCK
    /\ path' = "dir"
    /\ LOCK' = TRUE
    /\ event' = "open_err"
    /\ Fault
    /\ UNCHANGED <<IDX0, idx_durable, LOG0, log_durable, mem, txn, count0,
                   appended, staged, acked, acked_closed, n_committed, rets,
                   count_open, was_reset, opener, flex>>

\* impl Drop for Engine without the remove_file
EngineDrop_keep ==
    /\ engine = "open"
    /\ tx = "none"
    /\ NoEngine
    /\ EndSession
    /\ event' = "close"
    /\ UNCHANGED <<path, LOCK, IDX0, idx_durable, LOG0, log_durable, txn,
                   n_committed, faults, opener, flex>>

\* impl Drop for Engine
EngineDrop ==
    /\ engine = "open"
    /\ tx = "none"
    /\ LOCK' = FALSE
    /\ NoEngine
    /\ EndSession
    /\ event' = "close"
    /\ UNCHANGED <<path, IDX0, idx_durable, LOG0, log_durable, txn,
                   n_committed, faults, opener, flex>>
\* Engine::transaction whose log transaction takes the synced length of the
\* file as its tail
EngineTransaction_synced ==
    /\ engine = "open"
    /\ tx = "none"
    /\ tx' = "active"
    /\ writer' = <<>>
    /\ tail' = log_durable
    /\ old_len' = Len(map)
    /\ info_updates' = <<>>
    /\ event' = "begin"
    /\ count0' = Count
    /\ appended' = <<>>
    /\ staged' = <<>>
    /\ UNCHANGED <<disk, mem, acked, acked_closed, n_committed, rets,
                   count_open, was_reset, faults, opener, flex>>

\* Engine::transaction, with Log::transaction and Index::transaction
EngineTransaction ==
    /\ engine = "open"
    /\ tx = "none"
    /\ tx' = "active"
    /\ writer' = <<>>
    /\ tail' = Len(LOG0)
    /\ old_len' = Len(map)
    /\ info_updates' = <<>>
    /\ event' = "begin"
    /\ count0' = Count
    /\ appended' = <<>>
    /\ staged' = <<>>
    /\ UNCHANGED <<disk, mem, acked, acked_closed, n_committed, rets,
                   count_open, was_reset, faults, opener, flex>>

\* log Transaction::append returning the tail after the write
LogTxAppend_after(entry) ==
    LET w1 == BufWrite(writer, LOG0, write_u16(Len(entry) % 65536))
        w2 == BufWrite(w1.buf, w1.file, entry)
    IN [offset |-> tail + EntrySizeBytes + Len(entry),
        tail |-> tail + EntrySizeBytes + Len(entry),
        buf |-> w2.buf,
        file |-> w2.file]

\* log Transaction::append: [offset, tail, buf, file] after the append
LogTxAppend(entry) ==
    LET w1 == BufWrite(writer, LOG0, write_u16(Len(entry) % 65536))
        w2 == BufWrite(w1.buf, w1.file, entry)
    IN [offset |-> tail,
        tail |-> tail + EntrySizeBytes + Len(entry),
        buf |-> w2.buf,
        file |-> w2.file]

\* index Transaction::append without the increment of next_row
IndexTxAppend_stuck(offset) ==
    [row |-> next_row, map |-> Append(map, offset), next_row |-> next_row]

\* index Transaction::append: [row, map, next_row] after the append
IndexTxAppend(offset) ==
    [row |-> next_row, map |-> Append(map, offset), next_row |-> next_row + 1]

\* engine Transaction::append(entry): log append, then index append
TxAppend(entry) ==
    /\ tx = "active"
    /\ Len(entry) <= EntrySizeMax
    /\ Len(map) < MaxRows
    /\ tail + EntrySizeBytes + Len(entry) <= MaxLogLen
    /\ LET l == LogTxAppend(entry)
           i == IndexTxAppend(l.offset)
       IN /\ writer' = l.buf
          /\ LOG0' = l.file
          /\ tail' = l.tail
          /\ map' = i.map
          /\ next_row' = i.next_row
          /\ appended' = Append(appended, <<i.row, entry>>)
          /\ rets' = Append(rets, i.row)
    /\ event' = "append"
    /\ UNCHANGED <<path, LOCK, IDX0, idx_durable, log_durable, engine, info,
                   tx, old_len, info_updates, count0, staged, acked,
                   acked_closed, n_committed, count_open, was_reset, faults,
                   opener, flex>>
\* The log has room for MaxBig entries with a payload.
SizedRoom(entry) ==
    Len(entry) > 0 => (tail \div (EntrySizeMax + EntrySizeBytes)) < MaxBig

\* engine Transaction::append(entry) without the assert of the log append
TxAppendSized_unasserted(entry) ==
    /\ tx = "active"
    /\ Len(map) < MaxRows
    /\ SizedRoom(entry)
    /\ LET l == LogTxAppend(entry)
           i == IndexTxAppend(l.offset)
       IN /\ writer' = l.buf
          /\ LOG0' = l.file
          /\ tail' = l.tail
          /\ map' = i.map
          /\ next_row' = i.next_row
          /\ appended' = Append(appended, <<i.row, entry>>)
          /\ rets' = Append(rets, i.row)
    /\ event' = "append"
    /\ UNCHANGED <<path, LOCK, IDX0, idx_durable, log_durable, engine, info,
                   tx, old_len, info_updates, count0, staged, acked,
                   acked_closed, n_committed, count_open, was_reset, faults,
                   opener, flex>>

\* engine Transaction::append(entry) with a payload of any length: the log
\* append asserts entry.len() <= EntrySize::max_value() and panics before it
\* writes or counts anything
TxAppendSized(entry) ==
    /\ tx = "active"
    /\ Len(map) < MaxRows
    /\ Len(entry) <= EntrySizeMax => SizedRoom(entry)
    /\ IF Len(entry) <= EntrySizeMax
       THEN /\ LET l == LogTxAppend(entry)
                   i == IndexTxAppend(l.offset)
               IN /\ writer' = l.buf
                  /\ LOG0' = l.file
                  /\ tail' = l.tail
                  /\ map' = i.map
                  /\ next_row' = i.next_row
                  /\ appended' = Append(appended, <<i.row, entry>>)
                  /\ rets' = Append(rets, i.row)
            /\ event' = "append"
            /\ UNCHANGED <<path, LOCK, IDX0, idx_durable, log_durable, engine,
                           info, tx, old_len, info_updates, count0, staged,
                           acked, acked_closed, n_committed, count_open,
                           was_reset, faults, opener, flex>>
       ELSE /\ event' = "append_panic"
            /\ UNCHANGED <<disk, mem, txn, count0, appended, staged, acked,
                           acked_closed, n_committed, rets, count_open,
                           was_reset, faults, opener, flex>>

\* engine Transaction::put_info keeping the value already staged for key
TxPutInfo_first(key, value) ==
    /\ tx = "active"
    /\ Len(staged) < MaxPuts
    /\ info_updates' = Override([k \in {key} |-> value], info_updates)
    /\ staged' = Append(staged, <<key, value>>)
    /\ event' = "put_info"
    /\ UNCHANGED <<disk, mem, tx, writer, tail, old_len, count0, appended,
                   acked, acked_closed, n_committed, rets, count_open,
                   was_reset, faults, opener, flex>>

\* engine Transaction::put_info
TxPutInfo(key, value) ==
    /\ tx = "active"
    /\ Len(staged) < MaxPuts
    /\ info_updates' = Override(info_updates, [k \in {key} |-> value])
    /\ staged' = Append(staged, <<key, value>>)
    /\ event' = "put_info"
    /\ UNCHANGED <<disk, mem, tx, writer, tail, old_len, count0, appended,
                   acked, acked_closed, n_committed, rets, count_open,
                   was_reset, faults, opener, flex>>

\* The transaction goes out of scope without commit: BufWriter's drop
\* flushes the buffer and ignores the outcome; k bytes reach the file.
TxDropFlush(k) ==
    /\ tx = "active"
    /\ LOG0' = LOG0 \o Prefix(writer, k)
    /\ NoTx
    /\ event' = "drop"
    /\ UNCHANGED <<path, LOCK, IDX0, idx_durable, log_durable, mem, count0,
                   appended, staged, acked, acked_closed, n_committed, rets,
                   count_open, was_reset, opener, flex>>

TxDrop == TxDropFlush(Len(writer)) /\ UNCHANGED faults

TxDropErr == \E k \in TornLog(Len(writer)) : TxDropFlush(k) /\ Fault

\* A commit that returns Err at some step; the transaction is consumed.
CommitErr ==
    /\ NoTx
    /\ event' = "commit_err"
    /\ Fault
    /\ UNCHANGED <<mem, count0, appended, staged, acked, acked_closed, n_committed,
                   rets, count_open, was_reset, opener, flex>>

\* log Transaction::commit, writer.flush()
CommitLogFlush ==
    /\ tx = "active"
    /\ LOG0' = LOG0 \o writer
    /\ writer' = <<>>
    /\ tx' = "log_flushed"
    /\ UNCHANGED <<path, LOCK, IDX0, idx_durable, log_durable, mem, tail,
                   old_len, info_updates, ghost, opener, flex>>

\* writer.flush() fails; the writer is then dropped and flushes again
CommitLogFlushErr ==
    /\ tx = "active"
    /\ writer # <<>>
    /\ \E k \in TornLog(Len(writer)) \cup {Len(writer)} :
          LOG0' = LOG0 \o Prefix(writer, k)
    /\ CommitErr
    /\ UNCHANGED <<path, LOCK, IDX0, idx_durable, log_durable>>

\* log Transaction::commit, Log::sync_data
CommitLogSync ==
    /\ tx = "log_flushed"
    /\ log_durable' = Len(LOG0)
    /\ tx' = "log_synced"
    /\ UNCHANGED <<path, LOCK, IDX0, idx_durable, LOG0, mem, writer, tail,
                   old_len, info_updates, ghost, opener, flex>>

CommitLogSyncErr ==
    /\ tx = "log_flushed"
    /\ CommitErr
    /\ UNCHANGED disk

\* index Transaction::commit, Index::sync_data up to write_all
CommitIndexWrite ==
    /\ tx = "log_synced"
    /\ IDX0' = IDX0 \o IndexSyncBuf(map, old_len)
    /\ tx' = "idx_written"
    /\ UNCHANGED <<path, LOCK, idx_durable, LOG0, log_durable, mem, writer,
                   tail, old_len, info_updates, ghost, opener, flex>>

\* seek fails, or write_all fails after k bytes
CommitIndexWriteErr ==
    /\ tx = "log_synced"
    /\ LET buf == IndexSyncBuf(map, old_len) IN
       \E k \in TornIndex(Len(buf)) \cup {0} : IDX0' = IDX0 \o Prefix(buf, k)
    /\ CommitErr
    /\ UNCHANGED <<path, LOCK, idx_durable, LOG0, log_durable>>

\* Index::sync_data's file.sync_data, then the info merge and Ok(())
CommitIndexSync ==
    /\ tx = "idx_written"
    /\ idx_durable' = Len(IDX0)
    /\ info' = Override(info, info_updates)
    /\ NoTx
    /\ event' = "commit_ok"
    /\ acked' = Override(acked, RowMap(appended))
    /\ n_committed' = n_committed + Len(appended)
    /\ UNCHANGED <<path, LOCK, IDX0, LOG0, log_durable, engine, map, next_row,
                   count0, appended, staged, acked_closed, rets, count_open,
                   was_reset, faults, opener, flex>>

CommitIndexSyncErr ==
    /\ tx = "idx_written"
    /\ CommitErr
    /\ UNCHANGED disk

\* Index::reset, reached through Engine::reset after the no-op Log::reset
IndexReset == 0

\* Engine::reset
EngineReset ==
    /\ engine = "open"
    /\ tx = "none"
    /\ next_row' = IndexReset
    /\ event' = "reset"
    /\ was_reset' = TRUE
    /\ UNCHANGED <<disk, engine, map, info, txn, count0, appended, staged, acked,
                   acked_closed, n_committed, rets, count_open, faults,
                   opener, flex>>

\* The machine stops: what was not synced may be lost from the end of each
\* file; the lock file stays behind.
Crash ==
    /\ engine = "open"
    /\ \E i \in TornIndex(Len(IDX0) - idx_durable) \cup {Len(IDX0) - idx_durable},
          l \in TornLog(Len(LOG0) - log_durable) \cup {Len(LOG0) - log_durable} :
          /\ IDX0' = Prefix(IDX0, idx_durable + i)
          /\ LOG0' = Prefix(LOG0, log_durable + l)
          /\ idx_durable' = idx_durable + i
          /\ log_durable' = log_durable + l
    /\ NoEngine
    /\ NoTx
    /\ EndSession
    /\ event' = "crash"
    /\ Fault
    /\ UNCHANGED <<path, LOCK, n_committed, opener, flex>>
\* A regular file is created where the repository path points; the files of
\* a store exist inside a directory only.
MakeFile ==
    /\ path = "absent"
    /\ path' = "file"
    /\ event' = "mkfile"
    /\ UNCHANGED <<LOCK, IDX0, idx_durable, LOG0, log_durable, mem, txn,
                   count0, appended, staged, acked, acked_closed, n_committed, rets,
                   count_open, was_reset, faults, opener, flex>>

\* That regular file is removed again.
RemoveFile ==
    /\ path = "file"
    /\ path' = "absent"
    /\ event' = "rmfile"
    /\ UNCHANGED <<LOCK, IDX0, idx_durable, LOG0, log_durable, mem, txn,
                   count0, appended, staged, acked, acked_closed, n_committed, rets,
                   count_open, was_reset, faults, opener, flex>>

\* The stale lock file of a killed process is removed by hand.
RemoveStaleLock ==
    /\ engine = "closed"
    /\ LOCK
    /\ LOCK' = FALSE
    /\ event' = "unlock"
    /\ UNCHANGED <<path, IDX0, idx_durable, LOG0, log_durable, mem, txn,
                   count0, appended, staged, acked, acked_closed, n_committed, rets,
                   count_open, was_reset, faults, opener, flex>>

(***************************************************************************)
(* flex::interval_tree: a red-black tree of intervals [a, b) whose nodes   *)
(* live in a slab and link to each other by slab index.  An Option<Index>  *)
(* is <<>> for None and <<id>> for Some(id).  The operators below take and *)
(* return the whole tree T = [root, tree, vacant, st]; st is "ok" until a  *)
(* call panics or runs forever.                                            *)
(***************************************************************************)
Max(x, y) == IF x >= y THEN x ELSE y
Opt(o) == { o[i] : i \in DOMAIN o }

\* slab: an entry that holds no node
Vacant == [color |-> "Vacant", a |-> 0, b |-> 0, m |-> 0, value |-> 0,
           l |-> <<>>, r |-> <<>>, p |-> <<>>]

\* Node::new with a node that starts Black
Node_black(a, b, value) == [color |-> "Black", a |-> a, b |-> b, m |-> b,
                            value |-> value, l |-> <<>>, r |-> <<>>,
                            p |-> <<>>]

\* Node::new
Node(a, b, value) == [color |-> "Red", a |-> a, b |-> b, m |-> b,
                      value |-> value, l |-> <<>>, r |-> <<>>, p |-> <<>>]

Occupied(T, id) == id \in DOMAIN T.tree /\ T.tree[id].color # "Vacant"
Panic(T) == [T EXCEPT !.st = "panic"]
Hang(T) == [T EXCEPT !.st = "hang"]

\* IntervalTree::node / node_mut on each of ids, then U: indexing a vacant
\* slab entry panics
Access(T, ids, U) ==
    IF T.st # "ok" THEN T
    ELSE IF \E id \in ids : ~Occupied(T, id) THEN Panic(T)
    ELSE U

\* Slab::insert: the first vacant key, or a new one at the end
SlabInsert(T, node) ==
    IF T.vacant = <<>>
    THEN LET n == Cardinality(DOMAIN T.tree) IN
         [id |-> n,
          T |-> [T EXCEPT !.tree = [i \in 0..n |->
                                      IF i < n THEN T.tree[i] ELSE node]]]
    ELSE [id |-> Head(T.vacant),
          T |-> [T EXCEPT !.tree[Head(T.vacant)] = node,
                          !.vacant = Tail(T.vacant)]]

\* IntervalTree::free (Slab::remove)
free(T, id) ==
    Access(T, {id}, [T EXCEPT !.tree[id] = Vacant,
                              !.vacant = <<id>> \o T.vacant])

\* IntervalTree::update that leaves m as it is
update_skip(T, n) == Access(T, {n}, T)

\* IntervalTree::update
update(T, n) ==
    LET node == T.tree[n]
        ml == IF node.l # <<>> THEN Max(node.b, T.tree[node.l[1]].m)
              ELSE node.b
        m == IF node.r # <<>> THEN Max(ml, T.tree[node.r[1]].m) ELSE ml
    IN Access(T, {n},
         Access(T, Opt(node.l) \cup Opt(node.r), [T EXCEPT !.tree[n].m = m]))
\* A rotation that also exchanges the intervals and values of the two slab
\* entries it relinks
Rotate_exchange(T, o, down, up) ==
    Access(T, {o},
      IF T.tree[o][down] = <<>> THEN Panic(T)
      ELSE
        LET s == T.tree[o][down][1] IN
        Access(T, {s},
          LET t == T.tree[s][up]
              parent == T.tree[o].p
              T1 == IF parent = <<>> THEN [T EXCEPT !.root = <<s>>]
                    ELSE Access(T, {parent[1]},
                           IF <<o>> = T.tree[parent[1]].l
                           THEN [T EXCEPT !.tree[parent[1]].l = <<s>>]
                           ELSE [T EXCEPT !.tree[parent[1]].r = <<s>>])
              T2 == Access(T1, {s},
                      [T1 EXCEPT !.tree[s].p = T1.tree[o].p,
                                 !.tree[o].p = <<s>>])
              T3 == IF t = <<>> THEN T2
                    ELSE Access(T2, {t[1]}, [T2 EXCEPT !.tree[t[1]].p = <<o>>])
              T4 == Access(T3, {o, s},
                      [T3 EXCEPT !.tree[o][down] = t,
                                 !.tree[s][up] = <<o>>,
                                 !.tree[o].a = T3.tree[s].a,
                                 !.tree[o].b = T3.tree[s].b,
                                 !.tree[o].value = T3.tree[s].value,
                                 !.tree[s].a = T3.tree[o].a,
                                 !.tree[s].b = T3.tree[o].b,
                                 !.tree[s].value = T3.tree[o].value])
          IN T4))

\* The part of a rotation that is the same on both sides: s, the child of o
\* on side `down`, moves up and o becomes its child on side `up`.
Rotate(T, o, down, up) ==
    Access(T, {o},
      IF T.tree[o][down] = <<>> THEN Panic(T)
      ELSE
        LET s == T.tree[o][down][1] IN
        Access(T, {s},
          LET t == T.tree[s][up]
              parent == T.tree[o].p
              T1 == IF parent = <<>> THEN [T EXCEPT !.root = <<s>>]
                    ELSE Access(T, {parent[1]},
                           IF <<o>> = T.tree[parent[1]].l
                           THEN [T EXCEPT !.tree[parent[1]].l = <<s>>]
                           ELSE [T EXCEPT !.tree[parent[1]].r = <<s>>])
              T2 == Access(T1, {s},
                      [T1 EXCEPT !.tree[s].p = T1.tree[o].p,
                                 !.tree[o].p = <<s>>])
              T3 == IF t = <<>> THEN T2
                    ELSE Access(T2, {t[1]}, [T2 EXCEPT !.tree[t[1]].p = <<o>>])
              T4 == Access(T3, {o, s},
                      [T3 EXCEPT !.tree[o][down] = t,
                                 !.tree[s][up] = <<o>>])
          IN update(update(T4, o), s)))

\* IntervalTree::rotate_left
rotate_left(T, o) == Rotate(T, o, "r", "l")

\* IntervalTree::rotate_right
rotate_right(T, o) == Rotate(T, o, "l", "r")

\* IntervalTree::rotate_up
rotate_up(T, o) ==
    Access(T, {o},
      IF T.tree[o].p = <<>> THEN Panic(T)
      ELSE LET p == T.tree[o].p[1] IN
           Access(T, {p},
             IF <<o>> = T.tree[p].l THEN rotate_right(T, p)
             ELSE rotate_left(T, p)))

\* IntervalTree::sibling_and_parent: <<s, p>> for Some((s, p)), <<>> for
\* None, <<"panic">> when a vacant entry is indexed
sibling_and_parent(T, n) ==
    IF ~Occupied(T, n) THEN <<"panic">>
    ELSE IF T.tree[n].p = <<>> THEN <<>>
    ELSE LET p == T.tree[n].p[1] IN
         IF ~Occupied(T, p) THEN <<"panic">>
         ELSE IF <<n>> = T.tree[p].l
              THEN IF T.tree[p].r = <<>> THEN <<>> ELSE <<T.tree[p].r[1], p>>
              ELSE IF T.tree[p].l = <<>> THEN <<>> ELSE <<T.tree[p].l[1], p>>

\* IntervalTree::uncle_and_grandparent
uncle_and_grandparent(T, n) ==
    IF ~Occupied(T, n) THEN <<"panic">>
    ELSE IF T.tree[n].p = <<>> THEN <<>>
    ELSE sibling_and_parent(T, T.tree[n].p[1])

\* IntervalTree::repair_after_insert
RECURSIVE repair_after_insert(_, _)
repair_after_insert(T, n) ==
    LET BlackRoot(U) ==
            IF U.st # "ok" THEN U
            ELSE IF U.root = <<>> THEN Panic(U)
            ELSE Access(U, {U.root[1]},
                        [U EXCEPT !.tree[U.root[1]].color = "Black"])
    IN
    Access(T, {n},
      IF T.tree[n].p = <<>> THEN BlackRoot(T)
      ELSE
        LET p == T.tree[n].p[1] IN
        Access(T, {p},
          IF T.tree[p].color = "Black" THEN T
          ELSE
            LET ug == uncle_and_grandparent(T, n) IN
            IF Len(ug) = 1 THEN Panic(T)
            ELSE IF Len(ug) = 2 /\ ~Occupied(T, ug[1]) THEN Panic(T)
            ELSE IF Len(ug) = 2 /\ T.tree[ug[1]].color = "Red"
            THEN \* the uncle is red
                 LET u == ug[1]
                     g == ug[2]
                 IN repair_after_insert(
                        [T EXCEPT !.tree[u].color = "Black",
                                  !.tree[p].color = "Black",
                                  !.tree[g].color = "Red"], g)
            ELSE IF T.tree[p].p = <<>> THEN Panic(T)
            ELSE
              LET g == T.tree[p].p[1] IN
              Access(T, {g},
                LET inner_l == T.tree[p].r = <<n>> /\ T.tree[g].l = <<p>>
                    inner_r == T.tree[p].l = <<n>> /\ T.tree[g].r = <<p>>
                    \* move the new node outside
                    T1 == IF inner_l THEN rotate_left(T, p)
                          ELSE IF inner_r THEN rotate_right(T, p)
                          ELSE T
                    p1 == IF inner_l \/ inner_r THEN n ELSE p
                    n1 == IF inner_l THEN T1.tree[n].l
                          ELSE IF inner_r THEN T1.tree[n].r
                          ELSE <<n>>
                IN
                IF T1.st # "ok" THEN T1
                ELSE IF n1 = <<>> THEN Panic(T1)
                ELSE
                  \* move the grandparent down, the parent up
                  LET T2 == IF n1 = T1.tree[p1].l THEN rotate_right(T1, g)
                            ELSE rotate_left(T1, g)
                  IN BlackRoot(
                       Access(T2, {p1, g},
                              [T2 EXCEPT !.tree[p1].color = "Black",
                                         !.tree[g].color = "Red"])))))

\* IntervalTree::find_key_update: [T, key, id], key being the FindKey variant
RECURSIVE find_key_update(_, _, _, _)
find_key_update(T, cur, a, b) ==
    IF T.st # "ok" \/ ~Occupied(T, cur)
    THEN [T |-> Panic(T), key |-> "This", id |-> cur]
    ELSE
      LET T1 == [T EXCEPT !.tree[cur].m = Max(T.tree[cur].m, b)]
          node == T1.tree[cur]
      IN IF a = node.a THEN [T |-> T1, key |-> "This", id |-> cur]
         ELSE IF a > node.a
         THEN IF node.r # <<>> THEN find_key_update(T1, node.r[1], a, b)
              ELSE [T |-> T1, key |-> "Right", id |-> cur]
         ELSE IF node.l # <<>> THEN find_key_update(T1, node.l[1], a, b)
              ELSE [T |-> T1, key |-> "Left", id |-> cur]
\* insert_nonoverlapping without its assert!(b > a) and with FindKey::This
\* handled as FindKey::Right
insert_nonoverlapping_lenient(T, a, b, value) ==
    IF T.st # "ok" THEN T
    ELSE IF T.root = <<>>
    THEN LET ins == SlabInsert(T, Node(a, b, value)) IN
         repair_after_insert([ins.T EXCEPT !.root = <<ins.id>>], ins.id)
    ELSE
      LET find == find_key_update(T, T.root[1], a, b)
          ins == SlabInsert(find.T, Node(a, b, value))
          id == ins.id
      IN IF find.T.st # "ok" THEN find.T
         ELSE IF find.key = "Left"
         THEN repair_after_insert(
                  [ins.T EXCEPT !.tree[find.id].l = <<id>>,
                                !.tree[id].p = <<find.id>>], id)
         ELSE repair_after_insert(
                  [ins.T EXCEPT !.tree[find.id].r = <<id>>,
                                !.tree[id].p = <<find.id>>], id)

\* IntervalTree::insert_nonoverlapping
insert_nonoverlapping(T, a, b, value) ==
    IF T.st # "ok" THEN T
    ELSE IF ~(b > a) THEN Panic(T)
    ELSE IF T.root = <<>>
    THEN LET ins == SlabInsert(T, Node(a, b, value)) IN
         repair_after_insert([ins.T EXCEPT !.root = <<ins.id>>], ins.id)
    ELSE
      LET find == find_key_update(T, T.root[1], a, b)
          ins == SlabInsert(find.T, Node(a, b, value))
          id == ins.id
      IN IF find.T.st # "ok" THEN find.T
         ELSE IF find.key = "Left"
         THEN repair_after_insert(
                  [ins.T EXCEPT !.tree[find.id].l = <<id>>,
                                !.tree[id].p = <<find.id>>], id)
         ELSE IF find.key = "Right"
         THEN repair_after_insert(
                  [ins.T EXCEPT !.tree[find.id].r = <<id>>,
                                !.tree[id].p = <<find.id>>], id)
         ELSE Panic(ins.T)

\* IntervalTree::find_overlapping: [st, id]; st is "panic" when a vacant
\* entry is indexed and "hang" when the walk visits more nodes than the
\* slab has entries (it never ends)
RECURSIVE find_overlapping_from(_, _, _, _, _)
find_overlapping_from(T, cur, a, b, visited) ==
    IF cur = <<>> THEN [st |-> "ok", id |-> <<>>]
    ELSE IF ~Occupied(T, cur[1]) THEN [st |-> "panic", id |-> <<>>]
    ELSE IF visited > Cardinality(DOMAIN T.tree)
    THEN [st |-> "hang", id |-> <<>>]
    ELSE
      LET node == T.tree[cur[1]] IN
      IF b > node.a /\ a < node.b THEN [st |-> "ok", id |-> cur]
      ELSE IF node.l # <<>> /\ ~Occupied(T, node.l[1])
      THEN [st |-> "panic", id |-> <<>>]
      ELSE IF node.l # <<>> /\ a <= T.tree[node.l[1]].m
           THEN find_overlapping_from(T, node.l, a, b, visited + 1)
           ELSE find_overlapping_from(T, node.r, a, b, visited + 1)

\* find_overlapping that never looks at left.m and goes right
RECURSIVE find_right_from(_, _, _, _)
find_right_from(T, cur, a, b) ==
    IF cur = <<>> THEN [st |-> "ok", id |-> <<>>]
    ELSE LET node == T.tree[cur[1]] IN
         IF b > node.a /\ a < node.b THEN [st |-> "ok", id |-> cur]
         ELSE find_right_from(T, node.r, a, b)

find_overlapping_right(T, a, b) == find_right_from(T, T.root, a, b)

find_overlapping(T, a, b) == find_overlapping_from(T, T.root, a, b, 0)

\* IntervalTree::find with the arms (Less, Less) and (Greater, Greater)
\* exchanged
find_exchanged(T, a, b) ==
    LET dest == find_overlapping_from(T, T.root, a, b, 0) IN
    IF dest.st = "panic" THEN <<"Panic">>
    ELSE IF dest.st = "hang" THEN <<"Hang">>
    ELSE IF dest.id = <<>> THEN <<"Miss">>
    ELSE LET id == dest.id[1]
             node == T.tree[id]
         IN
         IF a = node.a /\ b = node.b THEN <<"Equal", id>>
         ELSE IF (a < node.a /\ b >= node.b) \/ (a = node.a /\ b > node.b)
         THEN <<"Outside", id>>
         ELSE IF (a > node.a /\ b <= node.b) \/ (a = node.a /\ b < node.b)
         THEN <<"Inside", id>>
         ELSE IF a < node.a /\ b < node.b THEN <<"Right", id>>
         ELSE <<"Left", id>>

\* IntervalTree::find: <<"Miss">> or <<variant, id>>; <<"Panic">> and
\* <<"Hang">> when find_overlapping does not return
find(T, a, b) ==
    LET dest == find_overlapping(T, a, b) IN
    IF dest.st = "panic" THEN <<"Panic">>
    ELSE IF dest.st = "hang" THEN <<"Hang">>
    ELSE IF dest.id = <<>> THEN <<"Miss">>
    ELSE LET id == dest.id[1]
             node == T.tree[id]
         IN
         IF a = node.a /\ b = node.b THEN <<"Equal", id>>
         ELSE IF (a < node.a /\ b >= node.b) \/ (a = node.a /\ b > node.b)
         THEN <<"Outside", id>>
         ELSE IF (a > node.a /\ b <= node.b) \/ (a = node.a /\ b < node.b)
         THEN <<"Inside", id>>
         ELSE IF a < node.a /\ b < node.b THEN <<"Left", id>>
         ELSE <<"Right", id>>
\* IntervalTree::insert whose Equal arm puts a new Node in the entry
insert_renew(T, a, b, value) ==
    LET found == find(T, a, b) IN
    IF T.st # "ok" THEN T
    ELSE IF found[1] = "Hang" THEN Hang(T)
    ELSE IF found[1] = "Panic" THEN Panic(T)
    ELSE IF found[1] = "Miss" THEN insert_nonoverlapping(T, a, b, value)
    ELSE IF found[1] = "Equal"
    THEN [T EXCEPT !.tree[found[2]] =
              [Node(a, b, value) EXCEPT !.p = T.tree[found[2]].p,
                                        !.l = T.tree[found[2]].l,
                                        !.r = T.tree[found[2]].r]]
    ELSE Panic(T)

\* IntervalTree::insert
insert(T, a, b, value) ==
    LET found == find(T, a, b) IN
    IF T.st # "ok" THEN T
    ELSE IF found[1] = "Hang" THEN Hang(T)
    ELSE IF found[1] = "Panic" THEN Panic(T)
    ELSE IF found[1] = "Miss" THEN insert_nonoverlapping(T, a, b, value)
    ELSE IF found[1] = "Equal" THEN [T EXCEPT !.tree[found[2]].value = value]
    ELSE Panic(T)  \* unimplemented!()

\* IntervalTree::smallest_right: [st, id]
RECURSIVE leftmost(_, _, _)
leftmost(T, cur, visited) ==
    IF ~Occupied(T, cur) THEN [st |-> "panic", id |-> <<>>]
    ELSE IF visited > Cardinality(DOMAIN T.tree)
    THEN [st |-> "hang", id |-> <<>>]
    ELSE IF T.tree[cur].l # <<>> THEN leftmost(T, T.tree[cur].l[1], visited + 1)
    ELSE [st |-> "ok", id |-> <<cur>>]

smallest_right(T, cur) ==
    IF ~Occupied(T, cur) THEN [st |-> "panic", id |-> <<>>]
    ELSE IF T.tree[cur].r = <<>> THEN [st |-> "ok", id |-> <<>>]
    ELSE leftmost(T, T.tree[cur].r[1], 0)

\* IntervalTree::swap: the nodes at p and q change places, each slab entry
\* keeping its parent link
swap(T, p, q) ==
    Access(T, {p, q},
      [T EXCEPT !.tree[p] = [T.tree[q] EXCEPT !.p = T.tree[p].p],
                !.tree[q] = [T.tree[p] EXCEPT !.p = T.tree[q].p]])

\* IntervalTree::replace
replace(T, u, v) ==
    Access(T, {u},
      IF T.tree[u].p = <<>> THEN Panic(T)
      ELSE LET up == T.tree[u].p[1] IN
           Access(T, {v, up},
             update([T EXCEPT !.tree[v].p = <<up>>,
                              !.tree[up].l = IF T.tree[up].l = <<u>>
                                             THEN <<v>> ELSE @,
                              !.tree[up].r = IF T.tree[up].l = <<u>>
                                             THEN @ ELSE <<v>>], up)))

\* IntervalTree::bubble_black; `turns` counts the turns of the loop
RECURSIVE bubble_black_loop(_, _, _)
bubble_black_loop(T, n, turns) ==
    IF turns > MaxTurns THEN Hang(T)
    ELSE
    Access(T, {n},
      IF T.tree[n].p = <<>> THEN T
      ELSE IF T.tree[n].color = "Red"
      THEN [T EXCEPT !.tree[n].color = "Black"]
      ELSE
        \* n is Black and is not root
        LET sp == sibling_and_parent(T, n) IN
        IF Len(sp) # 2 THEN Panic(T)
        ELSE
          LET s == sp[1]
              p == sp[2]
          IN
          Access(T, {s, p},
            LET p_color == T.tree[p].color
                sl == T.tree[s].l
                sr == T.tree[s].r
            IN
            IF T.tree[s].color = "Red"
            THEN LET T1 == rotate_up(T, s) IN
                 bubble_black_loop(
                     Access(T1, {s, p},
                            [T1 EXCEPT !.tree[s].color = "Black",
                                       !.tree[p].color = "Red"]),
                     n, turns + 1)
            ELSE IF sl # <<>> /\ ~Occupied(T, sl[1]) THEN Panic(T)
            ELSE IF sl # <<>> /\ T.tree[sl[1]].color = "Red"
            THEN LET T1 == rotate_up(rotate_up(T, sl[1]), sl[1]) IN
                 Access(T1, {sl[1]}, [T1 EXCEPT !.tree[sl[1]].color = p_color])
            ELSE IF sr # <<>> /\ ~Occupied(T, sr[1]) THEN Panic(T)
            ELSE IF sr # <<>> /\ T.tree[sr[1]].color = "Red"
            THEN LET T1 == rotate_up(T, s) IN
                 Access(T1, {s, sr[1]},
                        [T1 EXCEPT !.tree[s].color = p_color,
                                   !.tree[sr[1]].color = "Black"])
            ELSE
              \* p has just been coloured Black, so the test that follows
              \* in the source always takes the `continue`
              bubble_black_loop(
                  [T EXCEPT !.tree[s].color = "Red",
                            !.tree[p].color = "Black"],
                  p, turns + 1)))

bubble_black(T, n) == bubble_black_loop(T, n, 0)

\* IntervalTree::unlink_one
unlink_one(T, n) ==
    Access(T, {n},
      LET r == T.tree[n].r IN
      IF T.tree[n].color = "Red" THEN T
      ELSE IF r = <<>> THEN Panic(T)
      ELSE bubble_black(replace(T, n, r[1]), r[1]))

\* IntervalTree::remove
remove(T, del) ==
    LET repl == smallest_right(T, del) IN
    IF T.st # "ok" THEN T
    ELSE IF repl.st = "panic" THEN Panic(T)
    ELSE IF repl.st = "hang" THEN Hang(T)
    ELSE IF repl.id = <<>> /\ T.tree[del].l = <<>>
    THEN [free(T, del) EXCEPT !.root = <<>>]
    ELSE IF repl.id = <<>>
    THEN \* self.node(del) after self.free(del)
         Panic(free(T, del))
    ELSE free(unlink_one(swap(T, del, repl.id[1]), repl.id[1]), repl.id[1])

Init ==
    /\ path = "absent"
    /\ LOCK = FALSE
    /\ IDX0 = <<>>
    /\ idx_durable = 0
    /\ LOG0 = <<>>
    /\ log_durable = 0
    /\ engine = "closed"
    /\ map = <<>>
    /\ next_row = 0
    /\ info = <<>>
    /\ tx = "none"
    /\ writer = <<>>
    /\ tail = 0
    /\ old_len = 0
    /\ info_updates = <<>>
    /\ event = "none"
    /\ count0 = 0
    /\ appended = <<>>
    /\ staged = <<>>
    /\ acked = <<>>
    /\ acked_closed = <<>>
    /\ n_committed = 0
    /\ rets = <<>>
    /\ count_open = 0
    /\ was_reset = FALSE
    /\ faults = 0
    /\ opener = [o \in Openers |-> "idle"]
    /\ root = <<>>
    /\ tree = <<>>
    /\ vacant = <<>>
    /\ tstate = "ok"
    /\ op = <<"none">>

(***************************************************************************)
(* Engine::open step by step, for openers that run concurrently.           *)
(***************************************************************************)
OpenerStep(o, from, to) ==
    /\ opener[o] = from
    /\ opener' = [opener EXCEPT ![o] = to]
    /\ UNCHANGED <<IDX0, idx_durable, LOG0, log_durable, mem, txn, ghost, flex>>

\* Path::exists(path) and fs::metadata
OpenCheckPath(o) ==
    /\ OpenerStep(o, "idle", IF path = "dir" THEN "check_lock"
                             ELSE IF path = "file" THEN "failed"
                             ELSE "create_dir")
    /\ UNCHANGED <<path, LOCK>>

\* fs::create_dir(path)?
OpenCreateDir(o) ==
    /\ OpenerStep(o, "create_dir", IF path = "absent" THEN "check_lock" ELSE "failed")
    /\ path' = IF path = "absent" THEN "dir" ELSE path
    /\ UNCHANGED LOCK

\* Path::exists(&lock_path), EBUSY when it does
OpenCheckLock(o) ==
    /\ OpenerStep(o, "check_lock", IF LOCK THEN "busy" ELSE "create_lock")
    /\ UNCHANGED <<path, LOCK>>

\* OpenOptions::new().create(true).write(true).open(&lock_path)
OpenCreateLock(o) ==
    /\ OpenerStep(o, "create_lock", "open_index")
    /\ LOCK' = TRUE
    /\ UNCHANGED path

\* Index::open(&index_path)
OpenIndex(o) ==
    /\ OpenerStep(o, "open_index", "open_log")
    /\ UNCHANGED <<path, LOCK>>

\* Index::open(&index_path)? returns its error; LOCK is left as it is
OpenIndexErr(o) ==
    /\ OpenerStep(o, "open_index", "failed")
    /\ UNCHANGED <<path, LOCK>>

\* Log::open(&log_path)? returns its error; LOCK is left as it is
OpenLogErr(o) ==
    /\ OpenerStep(o, "open_log", "failed")
    /\ UNCHANGED <<path, LOCK>>

\* Log::open(&log_path) and Ok(Engine {..})
OpenLog(o) ==
    /\ OpenerStep(o, "open_log", "open")
    /\ UNCHANGED <<path, LOCK>>

\* The caller has its Err and may call again.
OpenReturn(o) ==
    /\ opener[o] \in {"busy", "failed"}
    /\ OpenerStep(o, opener[o], "idle")
    /\ UNCHANGED <<path, LOCK>>

\* impl Drop for Engine, for the engine this opener obtained
OpenerDrop(o) ==
    /\ OpenerStep(o, "open", "idle")
    /\ LOCK' = FALSE
    /\ UNCHANGED path

\* Transactions that commit or are dropped, sessions that close and reopen.
Next ==
    \/ EngineOpen
    \/ EngineDrop
    \/ EngineTransaction
    \/ \E entry \in Payloads : TxAppend(entry)
    \/ TxDrop
    \/ CommitLogFlush
    \/ CommitLogSync
    \/ CommitIndexWrite
    \/ CommitIndexSync

Spec == Init /\ [][Next]_vars

\* The same with Engine::reset.
NextReset ==
    \/ Next
    \/ EngineReset

SpecReset == Init /\ [][NextReset]_vars
\* Transactions that all commit, and Engine::reset between them.
NextWipe ==
    \/ EngineOpen
    \/ EngineDrop
    \/ EngineTransaction
    \/ \E entry \in Payloads : TxAppend(entry)
    \/ CommitLogFlush
    \/ CommitLogSync
    \/ CommitIndexWrite
    \/ CommitIndexSync
    \/ EngineReset

SpecWipe == Init /\ [][NextWipe]_vars
\* The same with a regular file in the place of the repository.
NextPath ==
    \/ Next
    \/ MakeFile
    \/ RemoveFile
    \/ EngineOpenNotDir

SpecPath == Init /\ [][NextPath]_vars
(***************************************************************************)
(* An Index used on its own, as in the tests of index.rs.                  *)
(***************************************************************************)
\* Offsets handed to the index Transaction::append.
IndexOffsets == { 0, 12321, 70000 }

\* Index::open
IndexOpen ==
    /\ engine = "closed"
    /\ engine' = "index"
    /\ map' = IndexOpenMap(IDX0)
    /\ next_row' = IndexOpenRows(IDX0)
    /\ event' = "index_open"
    /\ count_open' = IndexOpenRows(IDX0)
    /\ UNCHANGED <<disk, info, txn, count0, appended, staged, acked,
                   acked_closed, n_committed, rets, was_reset, faults,
                   opener, flex>>

\* Index::transaction
IndexTransaction ==
    /\ engine = "index"
    /\ tx = "none"
    /\ tx' = "index_active"
    /\ old_len' = Len(map)
    /\ event' = "index_begin"
    /\ count0' = next_row
    /\ appended' = <<>>
    /\ UNCHANGED <<disk, mem, writer, tail, info_updates, staged, acked,
                   acked_closed, n_committed, rets, count_open, was_reset,
                   faults, opener, flex>>

\* index Transaction::append(offset)
IndexAppend(offset) ==
    /\ tx = "index_active"
    /\ Len(map) < MaxRows
    /\ LET i == IndexTxAppend(offset)
       IN /\ map' = i.map
          /\ next_row' = i.next_row
          /\ appended' = Append(appended, <<i.row, offset>>)
          /\ rets' = Append(rets, i.row)
    /\ event' = "index_append"
    /\ UNCHANGED <<disk, engine, info, txn, count0, staged, acked,
                   acked_closed, n_committed, count_open, was_reset, faults,
                   opener, flex>>

\* index Transaction::commit: Index::sync_data(old_len)
IndexCommit ==
    /\ tx = "index_active"
    /\ IDX0' = IDX0 \o IndexSyncBuf(map, old_len)
    /\ idx_durable' = Len(IDX0')
    /\ NoTx
    /\ event' = "index_commit"
    /\ acked' = Override(acked, RowMap(appended))
    /\ n_committed' = n_committed + Len(appended)
    /\ UNCHANGED <<path, LOCK, LOG0, log_durable, mem, count0, appended,
                   staged, acked_closed, rets, count_open, was_reset, faults,
                   opener, flex>>

\* The Index value is dropped and its file closed.
IndexClose ==
    /\ engine = "index"
    /\ tx = "none"
    /\ NoEngine
    /\ EndSession
    /\ event' = "index_close"
    /\ UNCHANGED <<disk, txn, n_committed, faults, opener, flex>>

\* Index transactions that all commit, the file closed and opened again.
NextIndex ==
    \/ IndexOpen
    \/ IndexTransaction
    \/ \E offset \in IndexOffsets : IndexAppend(offset)
    \/ IndexCommit
    \/ IndexClose

SpecIndex == Init /\ [][NextIndex]_vars
\* Payloads of no byte, of EntrySize::max_value() bytes and of one byte more
SizedPayloads == { <<>>,
                   [i \in 1..EntrySizeMax |-> 1],
                   [i \in 1..(EntrySizeMax + 1) |-> 1] }

\* One session of transactions that append the smallest and the largest
\* payloads.
NextSize ==
    \/ EngineOpen
    \/ EngineTransaction
    \/ \E entry \in SizedPayloads : TxAppendSized(entry)
    \/ TxDrop
    \/ CommitLogFlush
    \/ CommitLogSync
    \/ CommitIndexWrite
    \/ CommitIndexSync

SpecSize == Init /\ [][NextSize]_vars

\* The same with crashes and the removal of the stale lock.
NextCrash ==
    \/ Next
    \/ Crash
    \/ RemoveStaleLock

SpecCrash == Init /\ [][NextCrash]_vars

\* The same with I/O calls that fail.
NextFault ==
    \/ Next
    \/ TxDropErr
    \/ CommitLogFlushErr
    \/ CommitLogSyncErr
    \/ CommitIndexWriteErr
    \/ CommitIndexSyncErr

SpecFault == Init /\ [][NextFault]_vars

\* One caller at a time: opens that meet the lock and opens that fail after
\* they created it.
NextLock ==
    \/ Next
    \/ EngineOpenBusy
    \/ EngineOpenErr
    \/ RemoveStaleLock

SpecLock == Init /\ [][NextLock]_vars

\* Transactions that all run to their commit, with crashes at any step.
NextTorn ==
    \/ EngineOpen
    \/ EngineDrop
    \/ EngineTransaction
    \/ \E entry \in Payloads : TxAppend(entry)
    \/ CommitLogFlush
    \/ CommitLogSync
    \/ CommitIndexWrite
    \/ CommitIndexSync
    \/ Crash
    \/ RemoveStaleLock

SpecTorn == Init /\ [][NextTorn]_vars

\* Transactions that only stage info updates, and commits that fail in the
\* log step or in the index step.
NextInfo ==
    \/ EngineOpen
    \/ EngineDrop
    \/ EngineTransaction
    \/ \E key \in InfoKeys, value \in InfoVals : TxPutInfo(key, value)
    \/ TxDrop
    \/ CommitLogFlush
    \/ CommitLogSync
    \/ CommitLogSyncErr
    \/ CommitIndexWrite
    \/ CommitIndexWriteErr
    \/ CommitIndexSync
    \/ CommitIndexSyncErr

SpecInfo == Init /\ [][NextInfo]_vars

\* Concurrent calls of Engine::open on one directory.
NextOpen ==
    \E o \in Openers :
        \/ OpenCheckPath(o)
        \/ OpenCreateDir(o)
        \/ OpenCheckLock(o)
        \/ OpenCreateLock(o)
        \/ OpenIndex(o)
        \/ OpenIndexErr(o)
        \/ OpenLog(o)
        \/ OpenLogErr(o)
        \/ OpenReturn(o)
        \/ OpenerDrop(o)

SpecOpen == Init /\ [][NextOpen]_vars

\* IntervalTree::new
EmptyTree == [root |-> <<>>, tree |-> <<>>, vacant |-> <<>>, st |-> "ok"]

\* insert_nonoverlapping of each <<a, b>> of intervals in turn, value 0
RECURSIVE InsertAll(_, _)
InsertAll(T, intervals) ==
    IF intervals = <<>> THEN T
    ELSE InsertAll(insert_nonoverlapping(T, Head(intervals)[1],
                                         Head(intervals)[2], 0),
                   Tail(intervals))

\* tests::interval_find: the tree of the eight intervals
IntervalFindTree ==
    InsertAll(EmptyTree, << <<10, 20>>, <<20, 40>>, <<60, 80>>, <<80, 100>>,
                            <<100, 120>>, <<140, 160>>, <<180, 200>>,
                            <<220, 240>> >>)

(***************************************************************************)
(* Calls on one IntervalTree.                                              *)
(***************************************************************************)
Keys == 0..MaxKey
TreeValues == { 0, 1 }

\* The tree as the operators take it
Cur == [root |-> root, tree |-> tree, vacant |-> vacant, st |-> tstate]

\* The slab keys that hold a node
Ids == { id \in DOMAIN tree : tree[id].color # "Vacant" }

Overlaps(a, b, c, d) == b > c /\ a < d

Becomes(T) ==
    /\ root' = T.root
    /\ tree' = T.tree
    /\ vacant' = T.vacant
    /\ tstate' = T.st
    /\ UNCHANGED <<disk, mem, txn, ghost, opener>>

\* insert_nonoverlapping(a, b, value) with an interval that overlaps none of
\* the tree, on a slab from which nothing has been removed
TreeInsertNonoverlapping(a, b, value) ==
    /\ tstate = "ok"
    /\ vacant = <<>>
    /\ Cardinality(Ids) < MaxNodes
    /\ b > a
    /\ \A id \in Ids : ~Overlaps(a, b, tree[id].a, tree[id].b)
    /\ op' = <<"insert_nonoverlapping", a, b, value>>
    /\ Becomes(insert_nonoverlapping(Cur, a, b, value))

\* insert(a, b, value) with any interval
TreeInsert(a, b, value) ==
    /\ tstate = "ok"
    /\ vacant = <<>>
    /\ \/ Cardinality(Ids) < MaxInsert
       \/ \E id \in Ids : tree[id].a = a /\ tree[id].b = b
    /\ b > a
    /\ op' = <<"insert", a, b, value>>
    /\ Becomes(insert(Cur, a, b, value))

\* remove(idx) on the node that find(a, b) returns as Equal(idx)
TreeRemove(a, b) ==
    /\ tstate = "ok"
    /\ b > a
    /\ find(Cur, a, b)[1] = "Equal"
    /\ op' = <<"remove", a, b, find(Cur, a, b)[2]>>
    /\ Becomes(remove(Cur, find(Cur, a, b)[2]))

\* Intervals that never overlap, inserted in any order.
NextTree ==
    \E a, b \in Keys : TreeInsertNonoverlapping(a, b, 0)

SpecTree == Init /\ [][NextTree]_vars

\* Any intervals given to insert.
NextInsert ==
    \E a, b \in Keys, value \in TreeValues : TreeInsert(a, b, value)

SpecInsert == Init /\ [][NextInsert]_vars

\* Intervals that never overlap are inserted, then found and removed.
NextRemove ==
    \/ \E a, b \in Keys : TreeInsertNonoverlapping(a, b, 0)
    \/ \E a, b \in Keys : TreeRemove(a, b)

SpecRemove == Init /\ [][NextRemove]_vars

\* insert_nonoverlapping(a, b, value) with any two endpoints, the caller
\* keeping none of the preconditions
TreeInsertNonoverlappingAny(a, b, value) ==
    /\ tstate = "ok"
    /\ vacant = <<>>
    /\ Cardinality(Ids) < MaxInsert
    /\ op' = <<"insert_nonoverlapping", a, b, value>>
    /\ Becomes(insert_nonoverlapping(Cur, a, b, value))

\* Any endpoints given to insert_nonoverlapping.
NextBad ==
    \E a, b \in Keys : TreeInsertNonoverlappingAny(a, b, 0)

SpecBad == Init /\ [][NextBad]_vars

\* insert(a, b, value) with an interval that the tree stores exactly or that
\* overlaps none of the tree
TreeInsertExact(a, b, value) ==
    /\ \A id \in Ids : \/ tree[id].a = a /\ tree[id].b = b
                       \/ ~Overlaps(a, b, tree[id].a, tree[id].b)
    /\ TreeInsert(a, b, value)

\* Endpoints with room for MaxInsert intervals and a gap
ReplaceKeys == 0..(MaxInsert + 1)

\* Intervals are inserted and their values replaced.
NextReplace ==
    \E a, b \in ReplaceKeys, value \in TreeValues : TreeInsertExact(a, b, value)

SpecReplace == Init /\ [][NextReplace]_vars

\* Intervals that never overlap, each inserted with its left endpoint as its
\* value.
NextArena ==
    \E a, b \in Keys : TreeInsertNonoverlapping(a, b, a)

SpecArena == Init /\ [][NextArena]_vars

(***************************************************************************)
(* Properties.                                                             *)
(***************************************************************************)
Some(bytes) == <<"Some", bytes>>
None == <<"None">>

\* C1: once a commit has returned Ok, get(row) in the same session returns
\* exactly the bytes appended under every row id the transaction's appends
\* returned (transactions commit or are dropped, no reset).
C1_ReadBackInSession ==
    engine = "open" =>
        \A row \in DOMAIN acked : EngineGet(row) = Some(acked[row])

\* A commit has just returned Ok for a transaction that followed a dropped
\* one: row 0 was never committed, a later row was.
C1_Witness ==
    /\ event = "commit_ok"
    /\ count_open = 0
    /\ acked # <<>>
    /\ 0 \notin DOMAIN acked
    /\ \E row \in DOMAIN acked : acked[row] # <<>>

\* C2: after a commit has returned Ok, closing and reopening the engine
\* makes get(row) return exactly the bytes appended under each row id of
\* the committed transaction.
C2_ReadBackAfterReopen ==
    engine = "open" =>
        \A row \in DOMAIN acked_closed :
            EngineGet(row) = Some(acked_closed[row])

\* The offset stored in record i of the index file
IndexRecord(i) ==
    read_u64(SubSeq(IDX0, OffsetSize * (i - 1) + 1, OffsetSize * i))

\* A complete entry lies in the durable part of LOG0 at offset
DurableEntryAt(offset) ==
    \E entry \in Payloads :
        /\ offset + EntrySizeBytes + Len(entry) <= log_durable
        /\ SubSeq(LOG0, offset + 1, offset + EntrySizeBytes + Len(entry))
               = LogEntryBytes(entry)

\* C3: in every state reachable by appends, commits and crashes, each
\* offset stored in the durable part of IDX0 points at a complete entry
\* that is durable in LOG0.
C3_DurableIndexPointsAtDurableEntries ==
    \A i \in 1..(idx_durable \div OffsetSize) : DurableEntryAt(IndexRecord(i))

\* C4: dropping a transaction without commit restores count() and leaves
\* get(r) = None for every row id its appends returned.
C4_DropRollsBack ==
    event = "drop" =>
        /\ Count = count0
        /\ \A r \in Rows(appended) : EngineGet(r) = None

\* C5: after a commit that returned an error, count() is what it was
\* before the transaction began.
C5_FailedCommitKeepsCount ==
    event = "commit_err" => Count = count0

\* C6: for an open engine, after transactions, dropped transactions and
\* resets, get(r) is Some for every r < count() and None for every
\* r >= count().
C6_GetMatchesCount ==
    (engine = "open" /\ tx = "none") =>
        \A r \in 0..MaxRows :
            IF r < Count THEN EngineGet(r)[1] = "Some"
            ELSE EngineGet(r) = None

C8_IndexFileIsVector ==
    event = "commit_ok" => IDX0 = write_u64_into(map)

\* C9: absent reset, the first append on an empty store returns 0 and every
\* later append of the session returns one more than the append before it.
C9_DenseRowIds ==
    ~was_reset =>
        /\ \A i \in 2..Len(rets) : rets[i] = rets[i - 1] + 1
        /\ (rets # <<>> /\ count_open = 0) => rets[1] = 0

\* The first append of a transaction that follows another transaction's
\* appends, on a store that was empty at open.
C9_Witness ==
    /\ ~was_reset
    /\ count_open = 0
    /\ event = "append"
    /\ Len(appended) = 1
    /\ Len(rets) >= 2

\* C10: of the openers that run Engine::open on one directory, at most one
\* holds an engine at any time.
C10_AtMostOneEngine ==
    Cardinality({ o \in Openers : opener[o] = "open" }) <= 1

\* C11: while an engine is open on the directory, Engine::open meets the
\* lock file and returns Busy, leaving the file in place; once the engine
\* has been dropped the lock file is gone and the next open goes through.
C11_BusyUntilDropped ==
    /\ engine = "open" => LOCK
    /\ event = "busy" => LOCK
    /\ event = "close" => (engine = "closed" /\ ~LOCK)

\* An open has just returned Busy while an engine holds the directory.
C11_Witness ==
    /\ event = "busy"
    /\ engine = "open"
    /\ tx = "none"

\* C12: without a process kill, DB/LOCK exists if and only if an engine is
\* open on the directory, also after an open that failed.
C12_LockIffEngineOpen ==
    LOCK <=> engine = "open"

\* C13: when every transaction runs to its commit and crashes may leave
\* a partial record at the end of the index file, each row of a commit
\* that returned Ok reads back its exact payload in every later session.
C13_ReadableAfterTornIndex ==
    engine = "open" =>
        \A row \in DOMAIN acked_closed :
            EngineGet(row) = Some(acked_closed[row])

\* The keys staged by a transaction's put_info calls
StagedKeys == { staged[i][1] : i \in DOMAIN staged }
\* The value of the last put_info call for key
LastStaged(key) ==
    staged[CHOOSE i \in DOMAIN staged :
              /\ staged[i][1] = key
              /\ \A j \in DOMAIN staged : staged[j][1] = key => j <= i][2]

\* C14: the live info map of an engine changes only in the step in which a
\* commit succeeds; that step sets each staged key to the last value staged
\* for it and leaves every other key as it was.  put_info, a dropped
\* transaction and a failed commit leave the map unchanged.
C14_InfoChangesOnlyAtCommit ==
    [][ IF tx = "idx_written" /\ event' = "commit_ok"
        THEN info' = [k \in StagedKeys \cup DOMAIN info |->
                         IF k \in StagedKeys THEN LastStaged(k) ELSE info[k]]
        ELSE (engine = "open" /\ engine' = "open") => info' = info ]_vars

\* A commit has succeeded that staged one key twice with different values,
\* while the map held another key from an earlier commit.
C14_Witness ==
    /\ event = "commit_ok"
    /\ Len(staged) = 2
    /\ staged[1][1] = staged[2][1]
    /\ staged[1][2] # staged[2][2]
    /\ \E k \in DOMAIN info : k \notin StagedKeys

\* The slab keys of T that hold a node
NodeIds(T) == { id \in DOMAIN T.tree : T.tree[id].color # "Vacant" }

\* Every link leads to a node, a child's parent link points back to the
\* node that links to it, and a parent links to the child that names it.
LinksConsistent(T) ==
    \A id \in NodeIds(T) :
        LET node == T.tree[id] IN
        /\ \A c \in Opt(node.l) \cup Opt(node.r) :
              c \in NodeIds(T) /\ T.tree[c].p = <<id>>
        /\ node.l # <<>> => node.l # node.r
        /\ \A q \in Opt(node.p) :
              q \in NodeIds(T) /\ (T.tree[q].l = <<id>> \/ T.tree[q].r = <<id>>)

\* The root is black and is the only node without a parent.
RootIsOnlyOrphan(T) ==
    /\ \A r \in Opt(T.root) : r \in NodeIds(T) /\ T.tree[r].color = "Black"
    /\ \A id \in NodeIds(T) : T.tree[id].p = <<>> <=> T.root = <<id>>

NoRedRed(T) ==
    \A id \in NodeIds(T) :
        T.tree[id].color = "Red" =>
            \A c \in Opt(T.tree[id].l) \cup Opt(T.tree[id].r) :
                T.tree[c].color = "Black"

\* The keys of the subtree of o, left to right
RECURSIVE InOrder(_, _)
InOrder(T, o) ==
    IF o = <<>> THEN <<>>
    ELSE InOrder(T, T.tree[o[1]].l) \o o \o InOrder(T, T.tree[o[1]].r)

\* Every node is in the tree, and left to right the left endpoints grow.
SearchTree(T) ==
    LET ids == InOrder(T, T.root) IN
    /\ Len(ids) = Cardinality(NodeIds(T))
    /\ \A i \in 1..(Len(ids) - 1) : T.tree[ids[i]].a < T.tree[ids[i + 1]].a

\* The number of black nodes on every path from o down to a null link,
\* counting the null; 0 when two paths differ
RECURSIVE count_black(_, _)
count_black(T, o) ==
    IF o = <<>> THEN 1
    ELSE LET hl == count_black(T, T.tree[o[1]].l)
             hr == count_black(T, T.tree[o[1]].r)
         IN IF hl = 0 \/ hl # hr THEN 0
            ELSE IF T.tree[o[1]].color = "Red" THEN hl ELSE hl + 1

RedBlack(T) ==
    /\ T.st = "ok"
    /\ LinksConsistent(T)
    /\ RootIsOnlyOrphan(T)
    /\ NoRedRed(T)
    /\ SearchTree(T)
    /\ count_black(T, T.root) # 0

\* m = max(b, left.m, right.m) at every node
Augmented(T) ==
    \A id \in NodeIds(T) :
        LET node == T.tree[id]
            ml == IF node.l # <<>> THEN Max(node.b, T.tree[node.l[1]].m)
                  ELSE node.b
        IN node.m = IF node.r # <<>> THEN Max(ml, T.tree[node.r[1]].m)
                    ELSE ml

\* C15: after any sequence of insert_nonoverlapping calls with intervals
\* that do not overlap, the tree is a red-black tree: ordered by left
\* endpoint, black root that alone has no parent, no red node with a red
\* child, equal black count on every path, parent links that point back.
\* The eight inserts of tests::interval_find are one such sequence.
C15_RedBlackAfterInserts ==
    /\ RedBlack(Cur)
    /\ RedBlack(IntervalFindTree)

\* A tree of five nodes or more whose root is not the node inserted first:
\* recolourings and rotations have happened.
C15_Witness ==
    /\ op[1] = "insert_nonoverlapping"
    /\ Cardinality(Ids) >= 5
    /\ root # <<0>>
    /\ \E id \in Ids : tree[id].color = "Red" /\ tree[id].p # root

\* C16: after every removal of a found node from a tree built by inserts
\* of intervals that do not overlap, the tree is a red-black tree and m is
\* right at every node.
C16_ValidAfterRemove ==
    op[1] = "remove" => (RedBlack(Cur) /\ Augmented(Cur))

\* C17: on a tree built by such inserts, find(a, b) with a < b is Miss
\* exactly when no stored interval [c, d) has b > c and a < d.
C17_FindMissIffNoOverlap ==
    \A a, b \in Keys :
        a < b =>
            (find(Cur, a, b)[1] = "Miss"
                <=> ~\E id \in Ids : Overlaps(a, b, tree[id].a, tree[id].b))

\* A root with both children, and a query that falls into a gap right of
\* the root between two stored intervals.
C17_Witness ==
    /\ root # <<>>
    /\ tree[root[1]].l # <<>>
    /\ tree[root[1]].r # <<>>
    /\ \E a, b \in Keys :
          /\ a < b
          /\ find(Cur, a, b)[1] = "Miss"
          /\ a >= tree[root[1]].b
          /\ \E id \in Ids : tree[id].a >= b

\* What find must answer for the query [a, b) when it lands on [na, nb)
Variant(a, b, na, nb) ==
    IF a = na /\ b = nb THEN "Equal"
    ELSE IF a <= na /\ b >= nb THEN "Outside"
    ELSE IF a >= na /\ b <= nb THEN "Inside"
    ELSE IF a < na /\ b < nb THEN "Left"
    ELSE "Right"

\* C18: when find(a, b) is not Miss, the node it names overlaps [a, b) and
\* the variant follows from comparing the endpoints; on the tree of the
\* eight intervals find(9, 21) is Left on [20, 40) and find(239, 241) is
\* Right on [220, 240).
C18_FindVariant ==
    /\ \A a, b \in Keys :
          LET found == find(Cur, a, b) IN
          (a < b /\ found[1] # "Miss") =>
              /\ Len(found) = 2
              /\ found[2] \in Ids
              /\ Overlaps(a, b, tree[found[2]].a, tree[found[2]].b)
              /\ found[1] = Variant(a, b, tree[found[2]].a, tree[found[2]].b)
    /\ LET left == find(IntervalFindTree, 9, 21)
           right == find(IntervalFindTree, 239, 241)
       IN /\ left[1] = "Left"
          /\ IntervalFindTree.tree[left[2]].a = 20
          /\ IntervalFindTree.tree[left[2]].b = 40
          /\ right[1] = "Right"
          /\ IntervalFindTree.tree[right[2]].a = 220
          /\ IntervalFindTree.tree[right[2]].b = 240

\* A tree of three nodes or more on which queries get each of the five
\* variants, one of them a query that overlaps two stored intervals.
C18_Witness ==
    /\ Cardinality(Ids) >= 3
    /\ \A variant \in { "Equal", "Outside", "Inside", "Left", "Right" } :
          \E a, b \in Keys : a < b /\ find(Cur, a, b)[1] = variant
    /\ \E a, b \in Keys, i, j \in Ids :
          /\ i # j
          /\ Overlaps(a, b, tree[i].a, tree[i].b)
          /\ Overlaps(a, b, tree[j].a, tree[j].b)
          /\ find(Cur, a, b)[1] = "Left"

\* C19: after any sequence of such inserts, m = max(b, left.m, right.m) at
\* every node, the nodes that rotations moved included.
C19_Augmentation ==
    /\ Augmented(Cur)
    /\ Augmented(IntervalFindTree)

\* The node inserted first has been rotated down: it has a parent, and
\* the root's m comes from a child.
C19_Witness ==
    /\ op[1] = "insert_nonoverlapping"
    /\ 0 \in Ids
    /\ tree[0].p # <<>>
    /\ root # <<>>
    /\ tree[root[1]].m > tree[root[1]].b

\* C20: insert(a, b, v) with an interval that overlaps a stored one without
\* being equal to it returns, and leaves a tree of intervals that do not
\* overlap in which the found interval covers the union with [a, b).
C20_InsertMergesOverlap ==
    [][ LET found == find(Cur, op'[2], op'[3]) IN
        (op'[1] = "insert"
            /\ found[1] \in { "Left", "Right", "Outside", "Inside" }) =>
                /\ tstate' = "ok"
                /\ tree'[found[2]].a <= op'[2]
                /\ tree'[found[2]].a <= tree[found[2]].a
                /\ tree'[found[2]].b >= op'[3]
                /\ tree'[found[2]].b >= tree[found[2]].b
                /\ \A i, j \in DOMAIN tree' :
                      (i # j /\ tree'[i].color # "Vacant"
                             /\ tree'[j].color # "Vacant") =>
                          ~Overlaps(tree'[i].a, tree'[i].b,
                                    tree'[j].a, tree'[j].b) ]_vars

\* The tree after the step
CurNext == [root |-> root', tree |-> tree', vacant |-> vacant', st |-> tstate']

\* C21: remove(idx) removes exactly one interval: it returns, find over the
\* removed range is then Miss, and every other interval that was stored is
\* still found as Equal.
C21_RemoveExactlyOne ==
    [][ op'[1] = "remove" =>
          /\ tstate' = "ok"
          /\ find(CurNext, op'[2], op'[3])[1] = "Miss"
          /\ \A id \in Ids \ { op'[4] } :
                find(CurNext, tree[id].a, tree[id].b) = <<"Equal", id>> ]_vars


\* C29: remove(idx) on a node that has a left child and no right child
\* completes without panicking, and the left child takes the removed node's
\* place: it is Black, it has the removed node's parent, and it is the root
\* when the removed node was the root.
C29_LeftChildTakesPlace ==
    [][ ( /\ op'[1] = "remove"
          /\ tree[op'[4]].l # <<>>
          /\ tree[op'[4]].r = <<>> ) =>
            LET del == op'[4]
                child == tree[del].l[1]
            IN
            /\ tstate' = "ok"
            /\ tree'[child].color = "Black"
            /\ tree'[child].p = tree[del].p
            /\ (root = <<del>> => root' = <<child>>) ]_vars

\* C26: insert_nonoverlapping panics when it is called with b <= a, and
\* panics when its left endpoint a is the left endpoint of an interval that
\* the tree already stores.
C26_BadInsertPanics ==
    [][ ( /\ op'[1] = "insert_nonoverlapping"
          /\ tstate = "ok"
          /\ \/ op'[3] <= op'[2]
             \/ \E id \in Ids : tree[id].a = op'[2] ) =>
            tstate' = "panic" ]_vars

\* A call with b > a has panicked on the left endpoint of a stored node that
\* is not the root.
C26_Witness ==
    /\ tstate = "panic"
    /\ op[1] = "insert_nonoverlapping"
    /\ op[3] > op[2]
    /\ \E id \in Ids : /\ root # <<id>>
                       /\ tree[id].p # <<>>
                       /\ tree[id].a = op[2]
                       /\ tree[id].b # op[3]

\* C27: insert(a, b, v) with [a, b) exactly equal to a stored interval
\* replaces that node's value with v and changes nothing else: the slab has
\* the same entries, and every node keeps its endpoints, m, colour and
\* parent/left/right links.
C27_InsertEqualReplacesValue ==
    [][ \A id \in Ids :
          ( /\ op'[1] = "insert"
            /\ tstate = "ok"
            /\ tree[id].a = op'[2]
            /\ tree[id].b = op'[3] ) =>
              /\ tstate' = "ok"
              /\ root' = root
              /\ vacant' = vacant
              /\ tree' = [tree EXCEPT ![id].value = op'[4]] ]_vars

\* The value of the first inserted interval has been replaced in a tree of
\* three nodes whose root is another node.
C27_Witness ==
    /\ tstate = "ok"
    /\ Cardinality(Ids) = 3
    /\ root # <<0>>
    /\ op = <<"insert", tree[0].a, tree[0].b, 1>>
    /\ tree[0].value = 1
    /\ \E id \in Ids : tree[id].value = 0

\* C30: arena indices are stable under insertion: an insert_nonoverlapping
\* puts the new interval at the index that is the number of intervals
\* inserted before it, every interval stored before keeps its index, its
\* endpoints and its value, and find on each stored interval returns Equal
\* with that index.
C30_ArenaIndicesStable ==
    [][ op'[1] = "insert_nonoverlapping" =>
          LET k == Cardinality(Ids) IN
          /\ tstate' = "ok"
          /\ DOMAIN tree' = 0..k
          /\ tree'[k].a = op'[2]
          /\ tree'[k].b = op'[3]
          /\ tree'[k].value = op'[4]
          /\ \A id \in Ids : /\ tree'[id].a = tree[id].a
                             /\ tree'[id].b = tree[id].b
                             /\ tree'[id].value = tree[id].value
          /\ \A id \in 0..k :
                find(CurNext, tree'[id].a, tree'[id].b) = <<"Equal", id>> ]_vars

\* Five intervals or more are stored, rotations have moved the first inserted
\* one away from the root, and it is found at index 0 with its value.
C30_Witness ==
    /\ tstate = "ok"
    /\ Cardinality(Ids) >= 5
    /\ root # <<0>>
    /\ tree[0].p # root
    /\ tree[0].value = tree[0].a
    /\ find(Cur, tree[0].a, tree[0].b) = <<"Equal", 0>>
    /\ op[1] = "insert_nonoverlapping"
    /\ tree[Cardinality(Ids) - 1].a = op[2]

\* 2 + payload length, summed over the first n appends of the transaction
RECURSIVE BytesOfFirst(_, _)
BytesOfFirst(apps, n) ==
    IF n = 0 THEN 0
    ELSE BytesOfFirst(apps, n - 1) + EntrySizeBytes + Len(apps[n][2])

\* The offset that the i-th append of the transaction returned, as the
\* index append recorded it
OffsetOfAppend(i) == map[count0 + i]

\* C28: within a log transaction, the offset returned by each append is the
\* log file's length at the start of the transaction plus the sum of
\* (2 + payload length) over the transaction's earlier appends (the file does
\* not grow while the transaction buffers), and once the transaction has
\* flushed, the entry's length prefix and payload are in the file at that
\* position; also after an earlier transaction was dropped without commit.
C28_AppendOffsets ==
    engine = "open" =>
      \A i \in DOMAIN appended :
        IF tx = "active"
        THEN OffsetOfAppend(i) = Len(LOG0) + BytesOfFirst(appended, i - 1)
        ELSE SubSeq(LOG0, OffsetOfAppend(i) + 1,
                    OffsetOfAppend(i) + EntrySizeBytes + Len(appended[i][2]))
               = LogEntryBytes(appended[i][2])

\* The second append of a transaction that began after a dropped transaction
\* had left unsynced bytes in the file.
C28_Witness ==
    /\ tx = "active"
    /\ Len(appended) = 2
    /\ Len(LOG0) > log_durable
    /\ OffsetOfAppend(2) = Len(LOG0) + EntrySizeBytes + Len(appended[1][2])
    /\ Len(appended[1][2]) > 0

\* C24: after Engine::reset on a store that held committed entries, the
\* first transaction committed after the reset gets row ids that restart at
\* 0, and get(row) returns exactly the bytes appended under each row id its
\* appends returned, in the same session and after the store is reopened.
C24_ResetEmptiesStore ==
    /\ ( /\ was_reset
         /\ event = "commit_ok"
         /\ count0 = 0
         /\ n_committed > Len(appended) ) =>
           \A i \in DOMAIN appended :
              /\ appended[i][1] = i - 1
              /\ EngineGet(appended[i][1]) = Some(appended[i][2])
    /\ event = "open" =>
           \A row \in DOMAIN acked_closed :
              EngineGet(row) = Some(acked_closed[row])

\* The outcomes of a call of Engine::open
OpenEvents == { "open", "open_err", "busy", "enotdir" }

\* C25: Engine::open on a path that exists and is not a directory fails with
\* ENOTDIR and creates no LOCK, IDX0 or LOG0 file: the path is still the
\* regular file, no file of a store exists and no Engine value is returned.
C25_NotADirectory ==
    [][ (path = "file" /\ event' \in OpenEvents) =>
          /\ event' = "enotdir"
          /\ path' = "file"
          /\ ~LOCK'
          /\ IDX0' = <<>>
          /\ LOG0' = <<>>
          /\ engine' = "closed"
          /\ UNCHANGED <<disk, mem>> ]_vars

\* An open has failed on a path that is a regular file.
C25_Witness ==
    /\ event = "enotdir"
    /\ path = "file"
    /\ engine = "closed"

\* C23: index round trip: when index transactions that all commit have
\* appended offsets to an index file, the index opened again on the file
\* gives get(row) = Some(offset) for every pair of a row id returned by
\* append and the offset appended, the rows being 0, 1, .. in the order of
\* the appends, and None for every row from the number of appended offsets
\* on.
C23_IndexRoundTrip ==
    event = "index_open" =>
      /\ DOMAIN acked_closed = 0..(n_committed - 1)
      /\ \A row \in DOMAIN acked_closed :
            IndexGet(row) = <<acked_closed[row]>>
      /\ \A row \in n_committed..(MaxRows + 1) : IndexGet(row) = <<>>

\* The index has been opened again on a file of two offsets or more, one of
\* two bytes and one of three bytes among them.
C23_Witness ==
    /\ event = "index_open"
    /\ n_committed >= 2
    /\ \E r, s \in DOMAIN acked_closed :
          /\ acked_closed[r] = 12321
          /\ acked_closed[s] = 70000
          /\ IndexGet(r) = <<12321>>
          /\ IndexGet(s) = <<70000>>

\* C22: Transaction::append accepts a payload of 0 to 65,535 bytes and
\* rejects a payload of 65,536 bytes or more: every append that is accepted
\* has a payload of at most 65,535 bytes, returns count() as its row id and
\* advances count() by one; the rejected append writes nothing to the log
\* (file or buffer), adds no index entry and leaves count() as it is; and
\* after a commit, get gives every payload of the transaction back, the
\* 0-length one as an empty buffer.
C22_PayloadLengthLimit ==
    /\ [][ /\ Len(appended') = Len(appended) + 1 =>
                LET last == appended'[Len(appended')] IN
                /\ Len(last[2]) <= 65535
                /\ last[1] = Count
                /\ Count' = Count + 1
                /\ Len(map') = Len(map) + 1
           /\ (tx = "active" /\ tx' = "active" /\ event' = "append_panic") =>
                UNCHANGED <<LOG0, writer, tail, IDX0, map, next_row>> ]_vars
    /\ [](event = "commit_ok" =>
            \A i \in DOMAIN appended :
               EngineGet(appended[i][1]) = Some(appended[i][2]))

\* A payload of 65,536 bytes has just been rejected in a transaction that
\* has appended a payload of no byte and one of 65,535 bytes.
C22_Witness ==
    /\ event = "append_panic"
    /\ tx = "active"
    /\ \E i, j \in DOMAIN appended : /\ Len(appended[i][2]) = 0
                                     /\ Len(appended[j][2]) = 65535
    /\ Len(writer) = 65535 + 2 * EntrySizeBytes
=============================================================================
